---- MODULE Spec2Model ----
(***************************************************************************)
(* Model of src/parser.py: the Lexer (a character scanner with line and    *)
(* column bookkeeping) and the Parser (a recursive-descent evaluator that  *)
(* pulls tokens from the Lexer on demand), and evaluate(text).             *)
(*                                                                         *)
(* A text is a sequence of one-character strings.  Python floats are       *)
(* modelled as exact rationals <<n, d>> with d > 0 in lowest terms: the    *)
(* inputs are small enough that no rounding decides an outcome.  None and  *)
(* the empty string are both the empty string "".  A raised exception is   *)
(* the field raised, holding its message ("" when nothing was raised).     *)
(***************************************************************************)
EXTENDS Integers, Sequences, FiniteSets, TLC

VARIABLES input, text, pc, lexer, current_token, result, raised, token, start, calls

vars == <<input, text, pc, lexer, current_token, result, raised, token, start, calls>>

(***************************************************************************)
(* Bounds of the model.                                                    *)
(***************************************************************************)
MaxLen == 4

MaxCalls == 6

MaxUnary == 1

(***************************************************************************)
(* Rational arithmetic standing for float arithmetic.                      *)
(***************************************************************************)
Abs(n) == IF n < 0 THEN -n ELSE n

RECURSIVE Gcd(_, _)
Gcd(a, b) == IF b = 0 THEN a ELSE Gcd(b, a % b)

Rat(n, d) ==
  LET s == IF d < 0 THEN -1 ELSE 1
      g == Gcd(Abs(n), Abs(d))
  IN  <<(s * n) \div g, (s * d) \div g>>

Zero == <<0, 1>>

One == <<1, 1>>

RNeg(x) == <<-x[1], x[2]>>

RAdd(x, y) == Rat(x[1] * y[2] + y[1] * x[2], x[2] * y[2])

RSub(x, y) == Rat(x[1] * y[2] - y[1] * x[2], x[2] * y[2])

RMul(x, y) == Rat(x[1] * y[1], x[2] * y[2])

RDiv(x, y) == Rat(x[1] * y[2], x[2] * y[1])

RLess(x, y) == x[1] * y[2] < y[1] * x[2]

RIsInt(x) == x[2] = 1

\* the integer part of x, rounded toward zero
RTrunc(x) == IF x[1] >= 0 THEN x[1] \div x[2] ELSE -((-x[1]) \div x[2])

RECURSIVE IntPow(_, _)
IntPow(x, k) == IF k = 0 THEN One ELSE RMul(x, IntPow(x, k - 1))

(***************************************************************************)
(* Characters.                                                             *)
(***************************************************************************)
None == ""

Digits == {"0", "1", "2", "3", "4", "5", "6", "7", "8", "9"}

UpperLetters == {"A", "D", "E", "F", "H", "I", "L", "N", "O", "R", "S", "T", "X"}

LowerLetters == {"a", "d", "e", "f", "h", "i", "l", "n", "o", "r", "s", "t", "x"}

isspace(c) == c \in {" ", "\n", "\t"}

isdigit(c) == c \in Digits

isalpha(c) == c \in UpperLetters \cup LowerLetters

isalnum(c) == isalpha(c) \/ isdigit(c)

upperChar(c) ==
  CASE c = "a" -> "A" [] c = "d" -> "D" [] c = "e" -> "E" [] c = "f" -> "F"
    [] c = "h" -> "H" [] c = "i" -> "I" [] c = "l" -> "L" [] c = "n" -> "N"
    [] c = "o" -> "O" [] c = "r" -> "R" [] c = "s" -> "S" [] c = "t" -> "T"
    [] c = "x" -> "X" [] OTHER -> c

upper(s) == [i \in 1..Len(s) |-> upperChar(s[i])]

DigitVal(c) ==
  CASE c = "0" -> 0 [] c = "1" -> 1 [] c = "2" -> 2 [] c = "3" -> 3
    [] c = "4" -> 4 [] c = "5" -> 5 [] c = "6" -> 6 [] c = "7" -> 7
    [] c = "8" -> 8 [] c = "9" -> 9

(***************************************************************************)
(* Token                                                                   *)
(***************************************************************************)
Token(type, value, line, column) ==
  [type |-> type, value |-> value, line |-> line, column |-> column]

NoToken == Token("NONE", Zero, 0, 0)

\* the keyword table built by Lexer.__init__
keywords ==
  { <<"I", "F">>, <<"T", "H", "E", "N">>, <<"E", "L", "S", "E">>,
    <<"A", "N", "D">>, <<"O", "R">>, <<"N", "O", "T">> }

KeywordType(s) ==
  CASE s = <<"I", "F">> -> "IF"
    [] s = <<"T", "H", "E", "N">> -> "THEN"
    [] s = <<"E", "L", "S", "E">> -> "ELSE"
    [] s = <<"A", "N", "D">> -> "AND"
    [] s = <<"O", "R">> -> "OR"
    [] s = <<"N", "O", "T">> -> "NOT"

(***************************************************************************)
(* Lexer                                                                   *)
(***************************************************************************)
Lexer(t) ==
  [text |-> t, pos |-> 0,
   current_char |-> IF Len(t) > 0 THEN t[1] ELSE None,
   line |-> 1, column |-> 1]

advance(l) ==
  LET l1 == IF l.current_char = "\n"
            THEN [l EXCEPT !.line = @ + 1, !.column = 0]
            ELSE l
      p  == l1.pos + 1
  IN  [l1 EXCEPT !.pos = p, !.column = @ + 1,
                 !.current_char = IF p < Len(l.text) THEN l.text[p + 1] ELSE None]

RECURSIVE skip_whitespace(_)
skip_whitespace(l) ==
  IF l.current_char # None /\ isspace(l.current_char)
  THEN skip_whitespace(advance(l))
  ELSE l

RECURSIVE skip_comment_loop(_)
skip_comment_loop(l) ==
  IF l.current_char # None /\ l.current_char # "\n"
  THEN skip_comment_loop(advance(l))
  ELSE l

skip_comment(l) == advance(skip_comment_loop(l))

\* what get_next_token hands back: the lexer after the call, the token it
\* returned (or the message of the exception it raised), and start, the value
\* of pos when the branch that built the token was entered
Returned(l, tok, st) == [lexer |-> l, token |-> tok, raised |-> "", start |-> st]

LexError(l, st) ==
  [lexer |-> l, token |-> NoToken, raised |-> "Invalid character", start |-> st]

\* float(result) for a string of digits holding exactly one or no "."
RECURSIVE DigitsValue(_)
DigitsValue(s) ==
  IF s = <<>> THEN 0
  ELSE 10 * DigitsValue(SubSeq(s, 1, Len(s) - 1)) + DigitVal(s[Len(s)])

DotIndex(s) ==
  IF \E i \in 1..Len(s) : s[i] = "."
  THEN CHOOSE i \in 1..Len(s) : s[i] = "."
  ELSE 0

float(s) ==
  LET k == DotIndex(s) IN
  IF k = 0 THEN Rat(DigitsValue(s), 1)
  ELSE LET ip == SubSeq(s, 1, k - 1)
           fp == SubSeq(s, k + 1, Len(s))
       IN  RAdd(Rat(DigitsValue(ip), 1), Rat(DigitsValue(fp), IntPow(<<10, 1>>, Len(fp))[1]))

\* the while loop of Lexer.number
RECURSIVE number_loop(_, _, _)
number_loop(l, res, decimal_point_count) ==
  IF l.current_char # None /\ (isdigit(l.current_char) \/ l.current_char = ".")
  THEN IF l.current_char = "." /\ decimal_point_count + 1 > 1
       THEN [lexer |-> l, result |-> res, raised |-> TRUE]
       ELSE number_loop(advance(l), Append(res, l.current_char),
                        IF l.current_char = "." THEN decimal_point_count + 1
                        ELSE decimal_point_count)
  ELSE [lexer |-> l, result |-> res, raised |-> FALSE]

\* result after `if result.startswith('.')` and `if result.endswith('.')`
startswith_dot(res) == IF res # <<>> /\ res[1] = "." THEN <<"0">> \o res ELSE res

endswith_dot(res) == IF res # <<>> /\ res[Len(res)] = "." THEN res \o <<"0">> ELSE res

\* the Token number returns, r being what its loop left and res the result
\* string after the two ifs
number_token(r, res, st) ==
  IF r.raised THEN LexError(r.lexer, st)
  ELSE Returned(r.lexer,
                Token("NUMBER", float(res), r.lexer.line, r.lexer.column - Len(res)),
                st)

number_after_loop(r, st) == number_token(r, endswith_dot(startswith_dot(r.result)), st)

number(l) == number_after_loop(number_loop(l, <<>>, 0), l.pos)

RECURSIVE id_loop(_, _)
id_loop(l, res) ==
  IF l.current_char # None /\ (isalnum(l.current_char) \/ l.current_char = "_")
  THEN id_loop(advance(l), Append(res, l.current_char))
  ELSE [lexer |-> l, result |-> res]

id_token(r, st) ==
  IF upper(r.result) \in keywords
  THEN Returned(r.lexer,
                Token(KeywordType(upper(r.result)), Zero, r.lexer.line,
                      r.lexer.column - Len(r.result)),
                st)
  ELSE LexError(r.lexer, st)

_id(l) == id_token(id_loop(l, <<>>), l.pos)

SingleCharType(c) ==
  CASE c = "+" -> "PLUS" [] c = "-" -> "MINUS" [] c = "*" -> "MULTIPLY"
    [] c = "/" -> "DIVIDE" [] c = "^" -> "EXPONENTIATION" [] c = "%" -> "MODULUS"
    [] c = "&" -> "BITWISE_AND" [] c = "|" -> "BITWISE_OR"
    [] c = "(" -> "LPAREN" [] c = ")" -> "RPAREN"

\* the returns of get_next_token, l being the lexer after the advance()s:
\* Token(type, text, self.line, self.column - width)
token_of_width(l, type, width, st) ==
  Returned(l, Token(type, Zero, l.line, l.column - width), st)

\* after the advance() over "=" or "!": a second "=" is mandatory
second_equal(l, type, st) ==
  IF l.current_char = "=" THEN token_of_width(advance(l), type, 2, st)
  ELSE LexError(l, st)

\* after the advance() over "<" or ">": a second "=" is optional
optional_equal(l, type2, type1, st) ==
  IF l.current_char = "=" THEN token_of_width(advance(l), type2, 2, st)
  ELSE token_of_width(l, type1, 1, st)

\* a loop guard that looks at the position instead of the character
at_end_by_pos(l) == l.pos > Len(l.text)

\* `while self.current_char:` is left when the current character is None
at_end(l) == l.current_char = None

RECURSIVE get_next_token(_)
get_next_token(l) ==
  IF at_end(l) THEN Returned(l, Token("EOF", Zero, l.line, l.column), l.pos)
  ELSE IF isspace(l.current_char) THEN get_next_token(skip_whitespace(l))
  ELSE IF l.current_char = "#" THEN get_next_token(skip_comment(l))
  ELSE IF isdigit(l.current_char) \/ l.current_char = "." THEN number(l)
  ELSE IF isalpha(l.current_char) THEN _id(l)
  ELSE IF l.current_char \in {"+", "-", "*", "/", "^", "%", "&", "|", "(", ")"}
       THEN token_of_width(advance(l), SingleCharType(l.current_char), 1, l.pos)
  ELSE IF l.current_char = "=" THEN second_equal(advance(l), "EQUAL", l.pos)
  ELSE IF l.current_char = "!" THEN second_equal(advance(l), "NOT_EQUAL", l.pos)
  ELSE IF l.current_char = "<"
       THEN optional_equal(advance(l), "LESS_EQUAL", "LESS", l.pos)
  ELSE IF l.current_char = ">"
       THEN optional_equal(advance(l), "GREATER_EQUAL", "GREATER", l.pos)
  ELSE LexError(l, l.pos)

(***************************************************************************)
(* Values: a Python float or bool.  A bool is an int in Python, so it      *)
(* carries the number 1 or 0 that comparisons and truth tests see.         *)
(***************************************************************************)
Float(x) == [kind |-> "float", num |-> x]

Bool(b) == [kind |-> "bool", num |-> IF b THEN One ELSE Zero]

NoValue == [kind |-> "none", num |-> Zero]

\* the truth value Python's `and`, `or` and `if` see
Truthy(v) == v.num # Zero

\* what an operation gives: a value, or the message of the exception raised
Gives(v) == [value |-> v, raised |-> ""]

Raises(msg) == [value |-> NoValue, raised |-> msg]

\* math.pow(x, y): ValueError for 0 to a negative power and for a negative
\* base with a fractional exponent.  A positive base with a fractional
\* exponent gives an irrational float, which this model cannot represent.
pow(x, y) ==
  IF RIsInt(y.num)
  THEN IF y.num[1] >= 0 THEN Gives(Float(IntPow(x.num, y.num[1])))
       ELSE IF x.num = Zero THEN Raises("math domain error")
       ELSE Gives(Float(IntPow(RDiv(One, x.num), -(y.num[1]))))
  ELSE IF x.num = Zero
       THEN IF RLess(Zero, y.num) THEN Gives(Float(Zero))
            ELSE Raises("math domain error")
       ELSE IF RLess(x.num, Zero) THEN Raises("math domain error")
       ELSE IF x.num = One THEN Gives(Float(One))
       ELSE Raises("unmodelled: irrational power")

multiply(x, y) == Gives(Float(RMul(x.num, y.num)))

\* a division that is not checked: Python's own ZeroDivisionError
divide_unchecked(x, divisor) ==
  IF divisor.num = Zero THEN Raises("float division by zero")
  ELSE Gives(Float(RDiv(x.num, divisor.num)))

\* term, the DIVIDE branch after the right operand is known
divide(x, divisor) ==
  IF divisor.num = Zero THEN Raises("Division by zero")
  ELSE Gives(Float(RDiv(x.num, divisor.num)))

\* float %: the C fmod remainder (sign of the dividend), then moved by the
\* divisor when its sign differs from the divisor's; ZeroDivisionError
\* "float modulo" for a zero divisor
fmod(x, y) == RSub(x, RMul(y, Rat(RTrunc(RDiv(x, y)), 1)))

\* a modulus with the zero check of the division
modulus_checked(x, y) ==
  IF y.num = Zero THEN Raises("Division by zero")
  ELSE LET mod == fmod(x.num, y.num) IN
       IF mod # Zero /\ (RLess(y.num, Zero) # RLess(mod, Zero))
       THEN Gives(Float(RAdd(mod, y.num)))
       ELSE Gives(Float(mod))

\* a modulus that keeps the C remainder, whose sign is the dividend's
modulus_fmod(x, y) ==
  IF y.num = Zero THEN Raises("float modulo")
  ELSE Gives(Float(fmod(x.num, y.num)))

modulus(x, y) ==
  IF y.num = Zero THEN Raises("float modulo")
  ELSE LET mod == fmod(x.num, y.num) IN
       IF mod # Zero /\ (RLess(y.num, Zero) # RLess(mod, Zero))
       THEN Gives(Float(RAdd(mod, y.num)))
       ELSE Gives(Float(mod))

add(x, y) == Gives(Float(RAdd(x.num, y.num)))

subtract(x, y) == Gives(Float(RSub(x.num, y.num)))

negate(x) == Float(RNeg(x.num))

\* the six comparison operators, on the numbers the operands carry
compare(type, x, y) ==
  CASE type = "EQUAL" -> Bool(x.num = y.num)
    [] type = "NOT_EQUAL" -> Bool(x.num # y.num)
    [] type = "LESS" -> Bool(RLess(x.num, y.num))
    [] type = "GREATER" -> Bool(RLess(y.num, x.num))
    [] type = "LESS_EQUAL" -> Bool(~RLess(y.num, x.num))
    [] type = "GREATER_EQUAL" -> Bool(~RLess(x.num, y.num))

(***************************************************************************)
(* Parser.  A production takes the parser (its lexer and current_token)    *)
(* and gives the parser afterwards with the value returned, or with the    *)
(* message of the exception raised.                                        *)
(***************************************************************************)
Parser(l, tok) == [lexer |-> l, current_token |-> tok]

Ok(p, v) == [parser |-> p, value |-> v, raised |-> ""]

Raise(p, msg) == [parser |-> p, value |-> NoValue, raised |-> msg]

\* eat, r being what get_next_token handed back
eat_next(p, r) ==
  IF r.raised # "" THEN Raise(Parser(r.lexer, p.current_token), r.raised)
  ELSE Ok(Parser(r.lexer, r.token), NoValue)

eat(p, token_type) ==
  IF p.current_token.type = token_type THEN eat_next(p, get_next_token(p.lexer))
  ELSE Raise(p, "Invalid syntax")

\* an exception raised by r ends the caller too; otherwise the caller goes on
\* with what r returned
Then(r, Continue(_)) == IF r.raised # "" THEN r ELSE Continue(r)

\* the outcome o of an arithmetic operation, in the parser state p
Operation(p, o) == IF o.raised # "" THEN Raise(p, o.raised) ELSE Ok(p, o.value)

\* a call of the method named f on the parser p
RECURSIVE call(_, _)

RECURSIVE exponentiation_loop(_, _), term_loop(_, _), expression_loop(_, _)
RECURSIVE comparison_loop(_, _), logical_expr_loop(_, _)

atom(p) ==
  IF p.current_token.type = "NUMBER"
  THEN Then(eat(p, "NUMBER"), LAMBDA e : Ok(e.parser, Float(p.current_token.value)))
  ELSE IF p.current_token.type = "LPAREN"
  THEN Then(eat(p, "LPAREN"), LAMBDA e1 :
       Then(call("expression", e1.parser), LAMBDA r :
       Then(eat(r.parser, "RPAREN"), LAMBDA e2 : Ok(e2.parser, r.value))))
  ELSE Raise(p, "Invalid syntax")

factor(p) ==
  IF p.current_token.type = "PLUS"
  THEN Then(eat(p, "PLUS"), LAMBDA e : call("factor", e.parser))
  ELSE IF p.current_token.type = "MINUS"
  THEN Then(eat(p, "MINUS"), LAMBDA e :
       Then(call("factor", e.parser), LAMBDA f : Ok(f.parser, negate(f.value))))
  ELSE call("exponentiation", p)

\* an exponentiation whose right operand is an atom: left-associative
exponentiation_loop_atom(p, res) ==
  IF p.current_token.type = "EXPONENTIATION"
  THEN Then(eat(p, "EXPONENTIATION"), LAMBDA e :
       Then(call("atom", e.parser), LAMBDA f :
       Then(Operation(f.parser, pow(res, f.value)), LAMBDA o :
       exponentiation_loop(o.parser, o.value))))
  ELSE Ok(p, res)

exponentiation_loop(p, res) ==
  IF p.current_token.type = "EXPONENTIATION"
  THEN Then(eat(p, "EXPONENTIATION"), LAMBDA e :
       Then(call("factor", e.parser), LAMBDA f :
       Then(Operation(f.parser, pow(res, f.value)), LAMBDA o :
       exponentiation_loop(o.parser, o.value))))
  ELSE Ok(p, res)

exponentiation(p) ==
  Then(call("atom", p), LAMBDA a : exponentiation_loop(a.parser, a.value))

\* the three branches of the loop of term
term_operation(type, res, y) ==
  IF type = "MULTIPLY" THEN multiply(res, y)
  ELSE IF type = "DIVIDE" THEN divide(res, y)
  ELSE modulus(res, y)

term_loop(p, res) ==
  IF p.current_token.type \in {"MULTIPLY", "DIVIDE", "MODULUS"}
  THEN Then(eat(p, p.current_token.type), LAMBDA e :
       Then(call("factor", e.parser), LAMBDA f :
       Then(Operation(f.parser, term_operation(p.current_token.type, res, f.value)),
            LAMBDA o : term_loop(o.parser, o.value))))
  ELSE Ok(p, res)

term(p) == Then(call("factor", p), LAMBDA f : term_loop(f.parser, f.value))

expression_operation(type, res, y) ==
  IF type = "PLUS" THEN add(res, y) ELSE subtract(res, y)

expression_loop(p, res) ==
  IF p.current_token.type \in {"PLUS", "MINUS"}
  THEN Then(eat(p, p.current_token.type), LAMBDA e :
       Then(call("term", e.parser), LAMBDA t :
       expression_loop(t.parser,
                       expression_operation(p.current_token.type, res, t.value).value)))
  ELSE Ok(p, res)

expression(p) == Then(call("term", p), LAMBDA t : expression_loop(t.parser, t.value))

ComparisonTypes ==
  {"EQUAL", "NOT_EQUAL", "LESS", "GREATER", "LESS_EQUAL", "GREATER_EQUAL"}

\* a chain that compares neighbouring operands and conjoins the outcomes
RECURSIVE comparison_chain(_, _, _)
comparison_chain(p, acc, prev) ==
  IF p.current_token.type \in ComparisonTypes
  THEN Then(eat(p, p.current_token.type), LAMBDA e :
       Then(call("expression", e.parser), LAMBDA x :
       comparison_chain(x.parser,
                        Bool(Truthy(acc)
                             /\ Truthy(compare(p.current_token.type, prev, x.value))),
                        x.value)))
  ELSE Ok(p, acc)

comparison_loop_chained(p, res) ==
  IF p.current_token.type \in ComparisonTypes
  THEN comparison_chain(p, Bool(TRUE), res)
  ELSE Ok(p, res)

comparison_loop(p, res) ==
  IF p.current_token.type \in ComparisonTypes
  THEN Then(eat(p, p.current_token.type), LAMBDA e :
       Then(call("expression", e.parser), LAMBDA x :
       comparison_loop(x.parser, compare(p.current_token.type, res, x.value))))
  ELSE Ok(p, res)

comparison(p) ==
  Then(call("expression", p), LAMBDA x : comparison_loop(x.parser, x.value))

\* `result and self.comparison()` and `result or self.comparison()`: Python
\* calls comparison() only when the left operand does not decide the result
logical_expr_loop(p, res) ==
  IF p.current_token.type \in {"AND", "OR"}
  THEN Then(eat(p, p.current_token.type), LAMBDA e :
       IF (p.current_token.type = "AND") = Truthy(res)
       THEN Then(call("comparison", e.parser), LAMBDA c :
                 logical_expr_loop(c.parser, c.value))
       ELSE logical_expr_loop(e.parser, res))
  ELSE Ok(p, res)

logical_expr(p) ==
  Then(call("comparison", p), LAMBDA c : logical_expr_loop(c.parser, c.value))

if_expr(p) ==
  Then(eat(p, "IF"), LAMBDA e1 :
  Then(call("logical_expr", e1.parser), LAMBDA condition :
  Then(eat(condition.parser, "THEN"), LAMBDA e2 :
  Then(call("expression", e2.parser), LAMBDA true_value :
  Then(eat(true_value.parser, "ELSE"), LAMBDA e3 :
  Then(call("expression", e3.parser), LAMBDA false_value :
  Ok(false_value.parser,
     IF Truthy(condition.value) THEN true_value.value ELSE false_value.value)))))))

parse(p) ==
  IF p.current_token.type = "IF" THEN call("if_expr", p) ELSE call("logical_expr", p)

call(f, p) ==
  CASE f = "atom" -> atom(p)
    [] f = "factor" -> factor(p)
    [] f = "exponentiation" -> exponentiation(p)
    [] f = "term" -> term(p)
    [] f = "expression" -> expression(p)
    [] f = "comparison" -> comparison(p)
    [] f = "logical_expr" -> logical_expr(p)
    [] f = "if_expr" -> if_expr(p)

evaluate_parse(l, tok) == parse(Parser(l, tok))

(***************************************************************************)
(* Inputs.  An input is a sequence of lexemes; the text handed to evaluate *)
(* is their spelling, separated by single spaces.                          *)
(***************************************************************************)
Spell(lx) ==
  CASE lx = "AND" -> <<"A", "N", "D">>
    [] lx = "and" -> <<"a", "n", "d">>
    [] lx = "OR" -> <<"O", "R">>
    [] lx = "IF" -> <<"I", "F">>
    [] lx = "THEN" -> <<"T", "H", "E", "N">>
    [] lx = "ELSE" -> <<"E", "L", "S", "E">>
    [] lx = "NOT" -> <<"N", "O", "T">>
    [] lx = "FOO" -> <<"F", "O", "O">>
    [] lx = "10" -> <<"1", "0">>
    [] lx = "1.5" -> <<"1", ".", "5">>
    [] lx = "==" -> <<"=", "=">>
    [] lx = "!=" -> <<"!", "=">>
    [] lx = "<=" -> <<"<", "=">>
    [] lx = ">=" -> <<">", "=">>
    [] OTHER -> <<lx>>

RECURSIVE Render(_)
Render(in) ==
  IF in = <<>> THEN <<>>
  ELSE IF Len(in) = 1 THEN Spell(in[1])
  ELSE Spell(in[1]) \o <<" ">> \o Render(Tail(in))

ArithOps == {"+", "-", "*", "/", "%", "^"}

CompareOps == {"==", "!=", "<", ">", "<=", ">="}

\* runs of unary minus signs
Signs == { [i \in 1..n |-> "-"] : n \in 0..MaxUnary }

\* [sign] a op [sign] b
Arith2Inputs ==
  { u1 \o <<a, op>> \o u2 \o <<b>> :
      u1 \in Signs \cup {<<"+">>}, u2 \in Signs \cup {<<"+">>},
      a \in {"0", "2", "3", "5"}, b \in {"0", "2", "3", "5"}, op \in ArithOps }

\* [sign] a op1 [sign] b op2 [sign] c, without the inputs whose float result
\* is not a small rational: a fraction b ^ -c as the exponent of another ^,
\* or as the divisor of a %, where rounding decides the remainder
Arith3Inputs ==
  { x \in { <<u1, a, op1, u2, b, op2, u3, c>> :
              u1 \in Signs, u2 \in Signs, u3 \in Signs,
              a \in {"0", "2", "3"}, b \in {"0", "2", "3"}, c \in {"0", "2"},
              op1 \in ArithOps, op2 \in ArithOps } :
      ~(x[3] \in {"^", "%"} /\ x[6] = "^" /\ Len(x[7]) % 2 = 1
          /\ x[5] # "0" /\ x[8] # "0") }

Arith3Text(x) ==
  x[1] \o <<x[2], x[3]>> \o x[4] \o <<x[5], x[6]>> \o x[7] \o <<x[8]>>

Arith3Texts == { Arith3Text(x) : x \in Arith3Inputs }

\* the sample test cases of the module docstring
SampleInputs ==
  { <<"2", "^", "3", "+", "4", "*", "5", "-", "6">>,
    <<"10", "/", "2", "+", "3", "^", "2">>,
    <<"5", "+", "2", "^", "3", "^", "2", "-", "1">> }

ParenInputs ==
  { <<a, op1, "(", b, op2, c, ")">> :
      a \in {"2", "3"}, b \in {"2", "3"}, c \in {"0", "2"},
      op1 \in ArithOps, op2 \in {"+", "-", "*"} }
  \cup { <<"(", a, op1, b, ")", op2, c>> :
      a \in {"2", "3"}, b \in {"2", "3"}, c \in {"0", "2"},
      op1 \in {"+", "-", "*"}, op2 \in ArithOps }

\* e1 op1 e2 and e1 op1 e2 op2 e3 over number literals
Compare2Inputs ==
  { <<a, op, b>> : a \in {"0", "1", "2", "3"}, b \in {"0", "1", "2", "3"},
                   op \in CompareOps }

Compare3Inputs ==
  { <<a, op1, b, op2, c>> :
      a \in {"0", "1", "2", "3"}, b \in {"0", "1", "2", "3"},
      c \in {"0", "1", "2", "3"}, op1 \in CompareOps, op2 \in CompareOps }

\* comparisons used as the operands of AND and OR: two true, two false
Comparisons ==
  { <<"1", "<", "2">>, <<"2", "<", "1">>, <<"2", "==", "2">>, <<"1", ">", "2">> }

Logical2Inputs ==
  { A \o <<op>> \o B : A \in Comparisons, B \in Comparisons, op \in {"AND", "OR"} }

Logical3Inputs ==
  { A \o <<op1>> \o B \o <<op2>> \o C :
      A \in Comparisons, B \in Comparisons, C \in Comparisons,
      op1 \in {"AND", "OR"}, op2 \in {"AND", "OR"} }

Conditions == Comparisons \cup Logical2Inputs \cup {<<"0">>, <<"5">>}

Branches ==
  { <<"1">>, <<"0">>, <<"1", "/", "0">>, <<"2", "%", "0">>, <<"2", "+", "3">> }

IfInputs ==
  { <<"IF">> \o c \o <<"THEN">> \o e1 \o <<"ELSE">> \o e2 :
      c \in Conditions, e1 \in Branches, e2 \in Branches }

\* a complete expression, then & or |, then another operand
BitwiseInputs ==
  { X \o <<op>> \o Y :
      X \in {<<"5">>, <<"2", "+", "3">>, <<"(", "5", ")">>, <<"1", "<", "2">>,
             <<"-", "2">>, <<"IF", "1", "<", "2", "THEN", "1", "ELSE", "0">>},
      op \in {"&", "|"},
      Y \in {<<"3">>, <<"(", "3", ")">>, <<"-", "3">>} }

OtherInputs ==
  { <<>>, <<"3", "+">>, <<"FOO">>, <<"(", "2">>, <<"2", ")">>, <<"NOT", "1">>,
    <<"1", "and", "0">>, <<"5", "AND", "3">>, <<"0", "OR", "7">>, <<"1.5", "*", "2">>,
    <<"IF", "1", "THEN", "2">>, <<"2", "=", "2">>, <<"$">>, <<"-", "-", "5">> }

Inputs ==
  Arith2Inputs \cup Arith3Texts \cup SampleInputs
    \cup ParenInputs \cup Compare2Inputs \cup Compare3Inputs
    \cup Logical2Inputs \cup Logical3Inputs \cup IfInputs \cup BitwiseInputs
    \cup OtherInputs

(***************************************************************************)
(* evaluate(text), one action per statement.                               *)
(***************************************************************************)
NoLexer == Lexer(<<>>)

Init ==
  /\ input \in Inputs
  /\ text = Render(input)
  /\ pc = "evaluate"
  /\ lexer = NoLexer
  /\ current_token = NoToken
  /\ result = NoValue
  /\ raised = ""
  /\ token = NoToken
  /\ start = 0
  /\ calls = 0

\* lexer = Lexer(text)
NewLexer ==
  /\ pc = "evaluate"
  /\ lexer' = Lexer(text)
  /\ pc' = "lexer"
  /\ UNCHANGED <<input, text, current_token, result, raised, token, start, calls>>

\* parser = Parser(lexer): Parser.__init__ reads the first token, r being
\* what get_next_token handed back
NewParserReturns(r) ==
  /\ lexer' = r.lexer
  /\ current_token' = r.token
  /\ raised' = r.raised
  /\ pc' = IF r.raised = "" THEN "parser" ELSE "raised"

NewParser ==
  /\ pc = "lexer"
  /\ NewParserReturns(get_next_token(lexer))
  /\ UNCHANGED <<input, text, result, token, start, calls>>

\* return parser.parse(), r being what parse handed back
ParseReturns(r) ==
  /\ lexer' = r.parser.lexer
  /\ current_token' = r.parser.current_token
  /\ result' = r.value
  /\ raised' = r.raised
  /\ pc' = IF r.raised = "" THEN "returned" ELSE "raised"

Parse ==
  /\ pc = "parser"
  /\ ParseReturns(evaluate_parse(lexer, current_token))
  /\ UNCHANGED <<input, text, token, start, calls>>

Next == NewLexer \/ NewParser \/ Parse

Spec == Init /\ [][Next]_vars

(***************************************************************************)
(* A Lexer on its own, asked for tokens again and again.                   *)
(***************************************************************************)
LexAlphabet == {"5", ".", " ", "\n", "#", "<", "=", "O", "r"}

LexTexts == UNION { [1..n -> LexAlphabet] : n \in 0..MaxLen }

InitLexer ==
  /\ text \in LexTexts
  /\ input = <<>>
  /\ pc = "lexer"
  /\ lexer = Lexer(text)
  /\ current_token = NoToken
  /\ result = NoValue
  /\ raised = ""
  /\ token = NoToken
  /\ start = 0
  /\ calls = 0

GetNextTokenReturns(r) ==
  /\ lexer' = r.lexer
  /\ token' = r.token
  /\ raised' = r.raised
  /\ start' = r.start

GetNextToken ==
  /\ pc = "lexer"
  /\ calls < MaxCalls
  /\ GetNextTokenReturns(get_next_token(lexer))
  /\ calls' = calls + 1
  /\ UNCHANGED <<input, text, pc, current_token, result>>

NextLexer == GetNextToken

SpecLexer == InitLexer /\ [][NextLexer]_vars

\* the model never leaves what it can represent
Representable == raised # "unmodelled: irrational power"

(***************************************************************************)
(* What the inputs mean, read off the lexemes without the parser.          *)
(***************************************************************************)
Done == pc \in {"returned", "raised"}

NumOf(lx) ==
  CASE lx = "0" -> 0 [] lx = "1" -> 1 [] lx = "2" -> 2 [] lx = "3" -> 3
    [] lx = "4" -> 4 [] lx = "5" -> 5 [] lx = "6" -> 6 [] lx = "10" -> 10

CmpHolds(op, x, y) ==
  CASE op = "==" -> x = y [] op = "!=" -> x # y [] op = "<" -> x < y
    [] op = ">" -> x > y [] op = "<=" -> x <= y [] op = ">=" -> x >= y

ComparisonTruth(A) == CmpHolds(A[2], NumOf(A[1]), NumOf(A[3]))

LogicalApply(op, x, y) == IF op = "AND" THEN x /\ y ELSE x \/ y

\* the left-to-right fold of a chain of two or three comparisons
LogicalFold(in) ==
  LET ab == LogicalApply(in[4], ComparisonTruth(SubSeq(in, 1, 3)),
                         ComparisonTruth(SubSeq(in, 5, 7)))
  IN  IF Len(in) = 7 THEN ab
      ELSE LogicalApply(in[8], ab, ComparisonTruth(SubSeq(in, 9, 11)))

\* C1: for a chain of comparisons joined by AND/OR, evaluate parses every
\* right-hand comparison (the whole text is consumed) and returns the
\* left-to-right fold of the operators, (A and B) or C for `A AND B OR C`.
C1_LogicalFold ==
  (input \in Logical2Inputs \cup Logical3Inputs /\ Done) =>
    /\ pc = "returned"
    /\ result = Bool(LogicalFold(input))
    /\ current_token.type = "EOF"

\* C2: a complete expression followed by & or | and another operand makes
\* evaluate fail with a syntax error; no value is returned.
C2_BitwiseIsSyntaxError ==
  (input \in BitwiseInputs /\ Done) => (pc = "raised" /\ raised = "Invalid syntax")

\* x % 0 and x / 0, alone and after a left operand a + , a - or a *
ZeroDivisorInputs(op) ==
  { in \in Arith2Inputs : in[Len(in)] = "0" /\ op \in {in[2], in[3]} }
    \cup { Arith3Text(x) : x \in { y \in Arith3Inputs :
             y[6] = op /\ y[8] = "0" /\ y[3] \in {"+", "-", "*"} } }

ModulusByZeroInputs == ZeroDivisorInputs("%")

DivisionByZeroInputs == ZeroDivisorInputs("/")

\* C3 as stated: x % 0 is not zero-checked; the evaluation completes with a
\* value and no error is raised.
C3_ModulusByZeroCompletes ==
  (input \in ModulusByZeroInputs /\ Done) => pc = "returned"

\* C3 as amended: x % 0 is not zero-checked by term, so it never fails with
\* term's own "Division by zero"; the float modulus itself raises
\* ZeroDivisionError "float modulo", and evaluate returns no value.
C3_ModulusByZeroRaises ==
  (input \in ModulusByZeroInputs /\ Done) =>
    (pc = "raised" /\ raised = "float modulo" /\ result = NoValue)

C3_Witness ==
  /\ input = <<"-", "5", "%", "0">>
  /\ pc = "raised"
  /\ raised = "float modulo"

\* C4: when term evaluates a / whose right operand is zero, the check comes
\* before the division and the evaluation aborts with "Division by zero";
\* evaluate returns no value, whatever the left operand.
C4_DivisionByZeroAborts ==
  (input \in DivisionByZeroInputs /\ Done) =>
    (pc = "raised" /\ raised = "Division by zero" /\ result = NoValue)

C4_Witness ==
  /\ input = <<"2", "*", "-", "3", "/", "-", "0">>
  /\ pc = "raised"
  /\ raised = "Division by zero"

\* the parts of IF c THEN e1 ELSE e2
IndexOf(in, lx) == CHOOSE i \in 1..Len(in) : in[i] = lx

IfCondition(in) == SubSeq(in, 2, IndexOf(in, "THEN") - 1)

IfTrueBranch(in) == SubSeq(in, IndexOf(in, "THEN") + 1, IndexOf(in, "ELSE") - 1)

IfFalseBranch(in) == SubSeq(in, IndexOf(in, "ELSE") + 1, Len(in))

ConditionTruth(c) ==
  IF Len(c) = 1 THEN NumOf(c[1]) # 0
  ELSE IF Len(c) = 3 THEN ComparisonTruth(c)
  ELSE LogicalFold(c)

BranchFails(e) == e \in {<<"1", "/", "0">>, <<"2", "%", "0">>}

BranchValue(e) == IF e = <<"2", "+", "3">> THEN 5 ELSE NumOf(e[1])

IfSelects(in) ==
  IF BranchFails(IfTrueBranch(in)) \/ BranchFails(IfFalseBranch(in))
  THEN pc = "raised"
  ELSE /\ pc = "returned"
       /\ result = Float(<<IF ConditionTruth(IfCondition(in))
                           THEN BranchValue(IfTrueBranch(in))
                           ELSE BranchValue(IfFalseBranch(in)), 1>>)

\* C5: for IF c THEN e1 ELSE e2 with a boolean condition c, both branches
\* are evaluated before selecting: a fatal error in either branch aborts the
\* evaluation, and otherwise the value of e1 is returned when c is true and
\* the value of e2 when c is false.
C5_IfEvaluatesBothThenSelects ==
  (input \in IfInputs /\ Len(IfCondition(input)) > 1 /\ Done) => IfSelects(input)

\* the same for a condition that is one comparison, without AND or OR
IfSelectsOnOneComparison ==
  (input \in IfInputs /\ Len(IfCondition(input)) \in {1, 3} /\ Done) => IfSelects(input)

(***************************************************************************)
(* The reference grouping of the arithmetic inputs.                        *)
(***************************************************************************)
\* a reference value: a rational, or no value when an operation fails
Val(x) == [ok |-> TRUE, v |-> x]

Fails == [ok |-> FALSE, v |-> Zero]

\* the largest integer not above x
RFloor(x) == IF x[1] >= 0 THEN x[1] \div x[2] ELSE -((-x[1] + x[2] - 1) \div x[2])

RefApply(op, x, y) ==
  IF ~x.ok \/ ~y.ok THEN Fails
  ELSE CASE op = "+" -> Val(RAdd(x.v, y.v))
         [] op = "-" -> Val(RSub(x.v, y.v))
         [] op = "*" -> Val(RMul(x.v, y.v))
         [] op = "/" -> IF y.v = Zero THEN Fails ELSE Val(RDiv(x.v, y.v))
         [] op = "%" -> IF y.v = Zero THEN Fails
                        ELSE Val(RSub(x.v, RMul(y.v, <<RFloor(RDiv(x.v, y.v)), 1>>)))
         [] op = "^" -> IF y.v[1] >= 0 THEN Val(IntPow(x.v, y.v[1]))
                        ELSE IF x.v = Zero THEN Fails
                        ELSE Val(RDiv(One, IntPow(x.v, -(y.v[1]))))

RefSigned(signs, x) ==
  IF x.ok /\ Len(SelectSeq(signs, LAMBDA c : c = "-")) % 2 = 1 THEN Val(RNeg(x.v)) ELSE x

Lit(lx) == Val(<<NumOf(lx), 1>>)

Prec(op) == IF op = "^" THEN 3 ELSE IF op \in {"*", "/", "%"} THEN 2 ELSE 1

\* [u1] a op [u2] b: a unary sign wraps the exponentiation it stands before
RefArith2(u1, a, op, u2, b) ==
  IF op = "^" THEN RefSigned(u1, RefApply("^", Lit(a), RefSigned(u2, Lit(b))))
  ELSE RefApply(op, RefSigned(u1, Lit(a)), RefSigned(u2, Lit(b)))

\* [u1] a op1 [u2] b op2 [u3] c: ^ first and to the right, then * / %, then
\* + -, equal levels to the left
RefArith3(x) ==
  LET u1 == x[1] a == x[2] op1 == x[3] u2 == x[4] b == x[5]
      op2 == x[6] u3 == x[7] c == x[8]
  IN  IF op1 = "^" /\ op2 = "^"
      THEN RefSigned(u1, RefApply("^", Lit(a), RefArith2(u2, b, "^", u3, c)))
      ELSE IF op1 = "^"
      THEN RefApply(op2, RefArith2(u1, a, "^", u2, b), RefSigned(u3, Lit(c)))
      ELSE IF Prec(op1) >= Prec(op2)
      THEN RefApply(op2, RefArith2(u1, a, op1, u2, b), RefSigned(u3, Lit(c)))
      ELSE RefApply(op1, RefSigned(u1, Lit(a)), RefArith2(u2, b, op2, u3, c))

\* the signs and operands of an input, read back from its lexemes
RECURSIVE SignCount(_)
SignCount(in) ==
  IF in # <<>> /\ in[1] \in {"-", "+"} THEN 1 + SignCount(Tail(in)) ELSE 0

Arith2Parts(in) ==
  LET n1 == SignCount(in)
      r  == SubSeq(in, n1 + 3, Len(in))
  IN  <<SubSeq(in, 1, n1), in[n1 + 1], in[n1 + 2], SubSeq(r, 1, Len(r) - 1), r[Len(r)]>>

Arith3Parts(in) ==
  LET n1 == SignCount(in)
      r1 == SubSeq(in, n1 + 3, Len(in))
      n2 == SignCount(r1)
      r2 == SubSeq(r1, n2 + 3, Len(r1))
  IN  <<SubSeq(in, 1, n1), in[n1 + 1], in[n1 + 2],
        SubSeq(r1, 1, n2), r1[n2 + 1], r1[n2 + 2],
        SubSeq(r2, 1, Len(r2) - 1), r2[Len(r2)]>>

RefArith2Of(in) ==
  LET x == Arith2Parts(in) IN RefArith2(x[1], x[2], x[3], x[4], x[5])

Agrees(ref) ==
  IF ref.ok THEN pc = "returned" /\ result = Float(ref.v)
  ELSE pc = "raised"

\* C6: for an arithmetic input over number literals evaluate returns the
\* value of the reference grouping: ^ binds tightest and to the right, a
\* unary sign wraps the exponentiation after it (and may follow ^), then
\* * / % to the left, then + - to the left; the three sample inputs of the
\* docstring give 22, 14 and 516, and -2^2 gives -4.
C6_ReferenceGrouping ==
  /\ (Done /\ input \in Arith3Texts) => Agrees(RefArith3(Arith3Parts(input)))
  /\ (Done /\ input \in Arith2Inputs) => Agrees(RefArith2Of(input))
  /\ (Done /\ input = <<"2", "^", "3", "+", "4", "*", "5", "-", "6">>)
        => (pc = "returned" /\ result = Float(<<22, 1>>))
  /\ (Done /\ input = <<"10", "/", "2", "+", "3", "^", "2">>)
        => (pc = "returned" /\ result = Float(<<14, 1>>))
  /\ (Done /\ input = <<"5", "+", "2", "^", "3", "^", "2", "-", "1">>)
        => (pc = "returned" /\ result = Float(<<516, 1>>))
  /\ (Done /\ input = <<"-", "2", "^", "2">>)
        => (pc = "returned" /\ result = Float(<<-4, 1>>))

C6_Witness ==
  /\ input = <<"5", "+", "2", "^", "3", "^", "2", "-", "1">>
  /\ pc = "returned"
  /\ result = Float(<<516, 1>>)

(***************************************************************************)
(* The scanner on its own.                                                 *)
(***************************************************************************)
Exhausted == lexer.pos >= Len(lexer.text)

\* C7: once the scanner has exhausted its source, every further call of
\* get_next_token returns an EOF token: no other kind, no exception, and the
\* source stays exhausted.
C7_EofForever ==
  [][Exhausted => (token'.type = "EOF" /\ raised' = "" /\ Exhausted')]_vars

C7_Witness ==
  /\ text = <<"5", "<", "5">>
  /\ calls = 5
  /\ token.type = "EOF"
  /\ raised = ""

(***************************************************************************)
(* The sign of a modulus.                                                  *)
(***************************************************************************)
IsModulus2(in) == in \in Arith2Inputs /\ Arith2Parts(in)[3] = "%"

IsModulus3(in) ==
  in \in Arith3Texts /\ Arith3Parts(in)[3] = "*" /\ Arith3Parts(in)[6] = "%"

\* the dividend x and the divisor y of [u1] a % [u2] b and of
\* [u1] a * [u2] b % [u3] c
Dividend(in) ==
  IF IsModulus2(in)
  THEN RefSigned(Arith2Parts(in)[1], Lit(Arith2Parts(in)[2])).v
  ELSE LET x == Arith3Parts(in) IN RefArith2(x[1], x[2], "*", x[4], x[5]).v

Divisor(in) ==
  IF IsModulus2(in)
  THEN RefSigned(Arith2Parts(in)[4], Lit(Arith2Parts(in)[5])).v
  ELSE LET x == Arith3Parts(in) IN RefSigned(x[7], Lit(x[8])).v

Sign(x) == IF x[1] > 0 THEN 1 ELSE IF x[1] < 0 THEN -1 ELSE 0

ModulusDone ==
  Done /\ (IsModulus2(input) \/ IsModulus3(input)) /\ Divisor(input) # Zero

\* C8 as stated: for x % y with y non-zero the result is zero or has the
\* sign of the dividend x.
C8_SignOfDividend ==
  ModulusDone =>
    (pc = "returned" /\ Sign(result.num) \in {0, Sign(Dividend(input))})

\* C8 as amended: for x % y with y non-zero the result is zero or has the
\* sign of the divisor y; a negative x with a positive y never gives a
\* negative remainder.
C8_SignOfDivisor ==
  ModulusDone =>
    (pc = "returned" /\ Sign(result.num) \in {0, Sign(Divisor(input))})

C8_Witness ==
  /\ input = <<"-", "5", "%", "3">>
  /\ pc = "returned"
  /\ result = Float(<<1, 1>>)

(***************************************************************************)
(* Token positions.                                                        *)
(***************************************************************************)
\* the line and column of the character at offset i (from 0) of a text
LineOf(t, i) == 1 + Cardinality({ j \in 1..i : t[j] = "\n" })

LastNewline(t, i) ==
  IF \E j \in 1..i : t[j] = "\n"
  THEN CHOOSE j \in 1..i : t[j] = "\n" /\ \A k \in (j + 1)..i : t[k] # "\n"
  ELSE 0

ColumnOf(t, i) == i + 1 - LastNewline(t, i)

Emitted == calls > 0 /\ raised = "" /\ token.type # "EOF"

\* C9: every token the scanner emits carries the line and column of its
\* first character in the source text, number literals with a leading or
\* trailing decimal point and tokens after newlines or comments included.
C9_TokenPosition ==
  Emitted => (token.line = LineOf(text, start) /\ token.column = ColumnOf(text, start))

\* the same without the number literals that begin or end with a point
TokenPositionUndotted ==
  (Emitted /\ ~(token.type = "NUMBER"
                /\ "." \in {text[start + 1], text[lexer.pos]}))
    => (token.line = LineOf(text, start) /\ token.column = ColumnOf(text, start))

(***************************************************************************)
(* Chained comparisons.                                                    *)
(***************************************************************************)
BoolNum(b) == IF b THEN 1 ELSE 0

\* C10: a chain e1 op1 e2 op2 e3 folds left to right over a running result:
\* the outcome of e1 op1 e2, as 1 or 0, is compared with e3 by op2, so
\* 1 < 2 < 3 is (1 < 2) < 3 and not 1 < 2 and 2 < 3.
C10_ComparisonFold ==
  (Done /\ input \in Compare3Inputs) =>
    /\ pc = "returned"
    /\ result = Bool(CmpHolds(input[4],
                              BoolNum(CmpHolds(input[2], NumOf(input[1]), NumOf(input[3]))),
                              NumOf(input[5])))

C10_Witness ==
  /\ input = <<"3", ">", "2", ">", "1">>
  /\ pc = "returned"
  /\ result = Bool(FALSE)

(***************************************************************************)
(* Operand kinds.  The values the productions hand to each other during    *)
(* the evaluation of text, followed along the calls the parser makes.      *)
(***************************************************************************)
\* the parser Parser.__init__ leaves, r being what get_next_token handed back
\* for the first token; no parser when the first token raised
first_parser(r) == IF r.raised # "" THEN {} ELSE {Parser(r.lexer, r.token)}

FirstParser == first_parser(get_next_token(Lexer(text)))

\* the values the loop of logical_expr uses as operands of AND and OR, from
\* the parser p with the running result res: res itself at each AND/OR, and
\* what comparison() returns where Python calls it
RECURSIVE logical_operands(_, _)

\* c being what the right comparison() handed back
operands_returned(c) ==
  IF c.raised # "" THEN {} ELSE {c.value} \cup logical_operands(c.parser, c.value)

\* e being what eat(AND) or eat(OR) handed back
operands_eaten(p, res, e) ==
  IF e.raised # "" THEN {}
  ELSE IF (p.current_token.type = "AND") = Truthy(res)
  THEN operands_returned(call("comparison", e.parser))
  ELSE logical_operands(e.parser, res)

logical_operands(p, res) ==
  IF p.current_token.type \in {"AND", "OR"}
  THEN {res} \cup operands_eaten(p, res, eat(p, p.current_token.type))
  ELSE {}

\* c being what the first comparison() of logical_expr handed back
operands_first(c) == IF c.raised # "" THEN {} ELSE logical_operands(c.parser, c.value)

logical_expr_operands(p) == operands_first(call("comparison", p))

\* if_expr up to `condition = self.logical_expr()`: the parser after eat(IF)
condition_parser(e) == IF e.raised # "" THEN {} ELSE {e.parser}

ConditionParser ==
  UNION { condition_parser(eat(p, "IF")) : p \in { q \in FirstParser : q.current_token.type = "IF" } }

\* the parsers on which parse and if_expr call logical_expr for this text
LogicalExprParsers ==
  { q \in FirstParser : q.current_token.type # "IF" } \cup ConditionParser

\* every operand AND/OR received in the evaluation of text
AndOrOperands == UNION { logical_expr_operands(p) : p \in LogicalExprParsers }

\* the condition if_expr received, c being what logical_expr handed back
condition_value(c) == IF c.raised # "" THEN {} ELSE {c.value}

IfConditions == UNION { condition_value(call("logical_expr", p)) : p \in ConditionParser }

\* the parsers at every token of text: the first one and the one after each
\* token eaten, at most n of them
RECURSIVE parsers_from(_, _)
parsers_from(r, n) ==
  IF r.raised # "" \/ n = 0 THEN {}
  ELSE IF r.token.type = "EOF" THEN {Parser(r.lexer, r.token)}
  ELSE {Parser(r.lexer, r.token)} \cup parsers_from(get_next_token(r.lexer), n - 1)

TokenParsers == parsers_from(get_next_token(Lexer(text)), Len(text) + 1)

ArithmeticProductions == {"atom", "exponentiation", "factor", "term", "expression"}

\* what a production handed back is a number, or it raised
returns_number(r) == r.raised # "" \/ r.value.kind = "float"

\* The arithmetic productions hand each other numbers only: called at any
\* token of the text, each of them returns a float or raises.
ArithmeticOperandsNumeric ==
  Done =>
    \A p \in TokenParsers : \A f \in ArithmeticProductions : returns_number(call(f, p))

\* C11: in every evaluation the arithmetic productions receive numbers only,
\* and every operand of AND/OR and every condition of IF is a boolean, never
\* a number.
C11_OperandKinds ==
  Done =>
    /\ \A v \in AndOrOperands \cup IfConditions : v.kind = "bool"
    /\ \A p \in TokenParsers : \A f \in ArithmeticProductions : returns_number(call(f, p))

\* an evaluation that returned although AND received two numbers
NumbersReachAnd ==
  /\ input = <<"5", "AND", "3">>
  /\ pc = "returned"
  /\ result = Float(<<3, 1>>)
  /\ AndOrOperands = {Float(<<5, 1>>), Float(<<3, 1>>)}

\* an evaluation that returned although IF received a number as condition
NumberReachesIf ==
  /\ input = <<"IF", "5", "THEN", "1", "ELSE", "0">>
  /\ pc = "returned"
  /\ result = Float(<<1, 1>>)
  /\ IfConditions = {Float(<<5, 1>>)}

\* an evaluation whose AND/OR operands and IF condition are all booleans
BooleansReachAndOr ==
  /\ input = <<"IF", "1", "<", "2", "AND", "2", "==", "2", "THEN", "1", "ELSE", "0">>
  /\ pc = "returned"
  /\ AndOrOperands = {Bool(TRUE)}
  /\ IfConditions = {Bool(TRUE)}

====
